---- MODULE Spec2Model ----
(***************************************************************************)
(* The share-access gateway of immich-public-proxy (app/src/index.ts):     *)
(* the password gate (decodeCookie), the unlock endpoint, the asset        *)
(* streaming route and the JSON gallery listing, as one state machine.     *)
(* One caller's cookie session, one clock, one backend.                    *)
(*                                                                         *)
(* The repository carries more than one revision of the route handlers     *)
(* (two in index.ts, one in a second file).  Each revision that differs in *)
(* behaviour is its own action.  The listing of the second file delegates  *)
(* to getGalleryAssetsByShareKey, whose code is not at hand; it is left    *)
(* out.                                                                    *)
(***************************************************************************)
EXTENDS Integers, Sequences, FiniteSets, TLC

VARIABLES
    now,        \* the wall clock, in milliseconds (dayjs())
    ticks,      \* how many times the clock has advanced (bounds the run)
    session,    \* req.session: share key -> stored slot (cookie-session)
    lastUnlock, \* history: per key, the body and time of the latest unlock
    backendUp,  \* whether the backend answers getShareByKey
    proc,       \* "running", or "exited" after the fatal-error handler
    req,        \* the latest request
    gate,       \* what decodeCookie did for the latest request
    calls,      \* the getShareByKey calls of the latest request
    handed,     \* what the latest request handed to a collaborator
    resp        \* the response to the latest request

vars == <<now, ticks, session, lastUnlock, backendUp, proc, req, gate, calls, handed, resp>>

----------------------------------------------------------------------------
(* Bounds of the model *)

MaxTicks == 3
BigLen == 45

(* Program constants *)

MsPerSecond == 1000
HourMs == 3600000
DefaultPage == 1
DefaultPageSize == 20

ClockSteps == {500, HourMs - 500}

----------------------------------------------------------------------------
(* Values *)

NoPw == "<undefined>"
NoKey == ""
NoSize == ""

Keys == {"open", "locked", "empty", "gone", "bad!"}
UnlockKeys == {"open", "locked"}
GalleryKeys == {"open", "locked", "gone"}
Passwords == {"p1", "p2"}
Ids == {0, 1, 99}
Sizes == {NoSize, "thumbnail", "huge"}
Types == {"photo", "video"}

\* A query-string parameter: absent, or a string that parseInt reads as
\* `value`, or a string with no leading integer.
NoParam == [given |-> FALSE, numeric |-> FALSE, value |-> 0]
TextParam == [given |-> TRUE, numeric |-> FALSE, value |-> 0]
NumParam(n) == [given |-> TRUE, numeric |-> TRUE, value |-> n]
PageParams == {NoParam, TextParam} \cup {NumParam(n) : n \in {0, -1, 1, 2, 3, 99}}
PageSizeParams == {NoParam, TextParam} \cup {NumParam(n) : n \in {0, -5, 20}}

----------------------------------------------------------------------------
(* The collaborators index.ts imports: ./immich, ./types, ./encrypt,       *)
(* ./invalidRequestHandler.  Their code is not part of the sources at      *)
(* hand; they are modelled from their contracts.                           *)

isKey(key) == key \in {"open", "locked", "empty", "gone"}
isId(id) == id >= 1
ImageSize == {"thumbnail", "preview", "original"}

BackendType(i) == IF i % 2 = 0 THEN "video" ELSE "image"
AssetsUpTo(n) == [i \in 1..n |-> [id |-> i, type |-> BackendType(i)]]

\* immich.getShareByKey(key, password): rejects when the backend cannot be
\* reached; otherwise a result with or without a link.
getShareByKey(key, password, up) ==
    IF ~up THEN [threw |-> TRUE, link |-> FALSE, assets |-> <<>>]
    ELSE IF key = "open" THEN [threw |-> FALSE, link |-> TRUE, assets |-> AssetsUpTo(BigLen)]
    ELSE IF key = "locked" /\ password = "p1"
         THEN [threw |-> FALSE, link |-> TRUE, assets |-> AssetsUpTo(2)]
    ELSE IF key = "empty" THEN [threw |-> FALSE, link |-> TRUE, assets |-> <<>>]
    ELSE [threw |-> FALSE, link |-> FALSE, assets |-> <<>>]

\* encrypt / decrypt: inverse on pairs encrypt made, DecodeError otherwise.
NoPlain == [json |-> FALSE, hasExpires |-> FALSE, password |-> NoPw, expires |-> 0]
encrypt(plain) == [present |-> TRUE, iv |-> 1, cr |-> 1, sealed |-> TRUE, plain |-> plain]
decrypt(pair) ==
    IF pair.sealed THEN [threw |-> FALSE, plain |-> pair.plain]
    ELSE [threw |-> TRUE, plain |-> NoPlain]

AbsentSlot == [present |-> FALSE, iv |-> 0, cr |-> 0, sealed |-> FALSE, plain |-> NoPlain]

\* respondToInvalidRequest(res, 404): 404 with an empty body.
NoMedia == <<>>
Unanswered == [status |-> 0, kind |-> "unanswered", media |-> NoMedia, page |-> 0, pageSize |-> 0, total |-> 0]
respondToInvalidRequest == [status |-> 404, kind |-> "empty", media |-> NoMedia, page |-> 0, pageSize |-> 0, total |-> 0]

----------------------------------------------------------------------------
(* dayjs and JSON, as index.ts uses them *)

\* dayjs().add(1, 'hour')
addHour(t) == t + HourMs

\* dayjs(...).format(): ISO 8601 to the second; the milliseconds are dropped.
\* The string is modelled by the number of whole seconds it names.
format(t) == t \div MsPerSecond

\* dayjs(string): the instant the string names.
dayjs(str) == str * MsPerSecond

\* JSON.stringify({ password, expires })
JSONstringify(password, expires) ==
    [json |-> TRUE, hasExpires |-> TRUE, password |-> password, expires |-> expires]

\* JSON.parse(text): throws on text that is not JSON.
JSONparse(plain) == [threw |-> ~plain.json, payload |-> plain]

----------------------------------------------------------------------------
(* The password gate *)

SlotOf(sess, key) == IF key \in DOMAIN sess THEN sess[key] ELSE AbsentSlot

NotExpiredNonStrict(expires, t) == dayjs(expires) >= t

\* payload?.expires && dayjs(payload.expires) > dayjs()
NotExpired(expires, t) == dayjs(expires) > t

\* The body of the try block: decrypt, parse, compare.
TryDecode(slot, t) ==
    LET d == decrypt(slot)
        j == JSONparse(d.plain)
    IN  IF d.threw \/ j.threw THEN [threw |-> TRUE, password |-> NoPw]
        ELSE IF j.payload.hasExpires /\ NotExpired(j.payload.expires, t)
             THEN [threw |-> FALSE, password |-> j.payload.password]
             ELSE [threw |-> FALSE, password |-> NoPw]

Enters(shareKey, slot) == shareKey # NoKey /\ slot.present /\ slot.iv # 0 /\ slot.cr # 0

decodeCookieNoCatch(shareKey, sess, t) ==
    LET slot == SlotOf(sess, shareKey)
        r == TryDecode(slot, t)
        threw == Enters(shareKey, slot) /\ r.threw
    IN  [ran |-> TRUE,
         password |-> IF Enters(shareKey, slot) /\ ~r.threw THEN r.password ELSE NoPw,
         next |-> IF threw THEN 0 ELSE 1,
         error |-> threw]

\* decodeCookie: req.password is set only inside the try; the catch is empty;
\* next() is called once, after the if.
decodeCookie(shareKey, sess, t) ==
    LET slot == SlotOf(sess, shareKey)
        r == TryDecode(slot, t)
    IN  [ran |-> TRUE,
         password |-> IF Enters(shareKey, slot) /\ ~r.threw THEN r.password ELSE NoPw,
         next |-> 1,
         error |-> FALSE]

NoGate == [ran |-> FALSE, password |-> NoPw, next |-> 0, error |-> FALSE]

----------------------------------------------------------------------------
(* POST /share/unlock *)

UnlockStoreEveryKey(sess, bodyKey, bodyPassword, t) ==
    IF bodyKey # NoKey
    THEN [k \in DOMAIN sess |-> encrypt(JSONstringify(bodyPassword, format(addHour(t))))]
    ELSE sess

\* if (req.session && req.body.key) req.session[req.body.key] = encrypt(...)
UnlockStore(sess, bodyKey, bodyPassword, t) ==
    IF bodyKey # NoKey
    THEN [sess EXCEPT ![bodyKey] = encrypt(JSONstringify(bodyPassword, format(addHour(t))))]
    ELSE sess

----------------------------------------------------------------------------
(* GET /share/:type(photo|video)/:key/:id/:size? *)

NoHand == [to |-> "none", key |-> NoKey, id |-> 0, type |-> "", size |-> NoSize, password |-> NoPw]

Streamed == [status |-> 200, kind |-> "stream", media |-> NoMedia, page |-> 0, pageSize |-> 0, total |-> 0]

\* sharedLink.assets.find(x => x.id === req.params.id): the first match, 0 for none.
Find(assets, id) ==
    LET hits == {i \in 1..Len(assets) : assets[i].id = id}
    IN  IF hits = {} THEN 0 ELSE CHOOSE i \in hits : \A j \in hits : i <= j

ValidParamsNoSizeCheck(key, id, size) == isKey(key) /\ isId(id)

\* The two validation ifs: key and id, then the size segment when present.
ValidParams(key, id, size) ==
    /\ ~(~isKey(key) \/ ~isId(id))
    /\ ~(size # NoSize /\ size \notin ImageSize)

AssetWithTypeKept(asset, type) == asset

\* asset.type = req.params.type === 'video' ? AssetType.video : AssetType.image
AssetWithType(asset, type) ==
    [asset EXCEPT !.type = IF type = "video" THEN "video" ELSE "image"]

\* render.assetBuffer(request, res, asset, req.params.size)
assetBuffer(key, asset, size) ==
    [to |-> "assetBuffer", key |-> key, id |-> asset.id, type |-> asset.type,
     size |-> size, password |-> NoPw]

Outcome(r, c, h, f) == [resp |-> r, calls |-> c, handed |-> h, fatal |-> f]

\* The handler after decodeCookie, in index.ts: every branch after the
\* resolution answers.  getShareByKey is awaited outside any try: when it
\* rejects, the async handler's promise rejects, nothing answers, and the
\* process's unhandledRejection handler closes the server and exits
\* (fatal |-> TRUE).
AssetHandler(type, key, id, size, password, up) ==
    IF ~ValidParams(key, id, size)
    THEN Outcome(respondToInvalidRequest, <<>>, NoHand, FALSE)
    ELSE LET share == getShareByKey(key, password, up)
             call == <<[key |-> key, password |-> password]>>
             at == Find(share.assets, id)
         IN  IF share.threw THEN Outcome(Unanswered, call, NoHand, TRUE)
             ELSE IF share.link /\ Len(share.assets) # 0
             THEN IF at # 0
                  THEN Outcome(Streamed, call,
                               assetBuffer(key, AssetWithType(share.assets[at], type), size), FALSE)
                  ELSE Outcome(respondToInvalidRequest, call, NoHand, FALSE)
             ELSE Outcome(respondToInvalidRequest, call, NoHand, FALSE)

\* The same handler in the second source file: the inner if has no else.
AssetHandlerNoElse(type, key, id, size, password, up) ==
    IF ~ValidParams(key, id, size)
    THEN Outcome(respondToInvalidRequest, <<>>, NoHand, FALSE)
    ELSE LET share == getShareByKey(key, password, up)
             call == <<[key |-> key, password |-> password]>>
             at == Find(share.assets, id)
         IN  IF share.threw THEN Outcome(Unanswered, call, NoHand, TRUE)
             ELSE IF share.link /\ Len(share.assets) # 0
             THEN IF at # 0
                  THEN Outcome(Streamed, call,
                               assetBuffer(key, AssetWithType(share.assets[at], type), size), FALSE)
                  ELSE Outcome(Unanswered, call, NoHand, FALSE)
             ELSE Outcome(respondToInvalidRequest, call, NoHand, FALSE)

----------------------------------------------------------------------------
(* GET /share/:id/api *)

ErrorEnvelope == [status |-> 404, kind |-> "error", media |-> NoMedia, page |-> 0, pageSize |-> 0, total |-> 0]

NaN == [nan |-> TRUE, n |-> 0]

\* parseInt(req.query.page as string)
parseInt(q) == IF q.given /\ q.numeric THEN [nan |-> FALSE, n |-> q.value] ELSE NaN

\* x || d: NaN and 0 are falsy, every other number is kept.
OrDefault(p, d) == IF p.nan \/ p.n = 0 THEN d ELSE p.n

Max(a, b) == IF a >= b THEN a ELSE b
Min(a, b) == IF a <= b THEN a ELSE b

\* Array.prototype.slice(start, end): a negative index counts from the end.
slice(s, start, end) ==
    LET n == Len(s)
        k == IF start < 0 THEN Max(n + start, 0) ELSE Min(start, n)
        f == IF end < 0 THEN Max(n + end, 0) ELSE Min(end, n)
    IN  SubSeq(s, k + 1, f)

Url(key, id, size) == <<"https://i.techie.pics", "share", "photo", key, id, size>>

Project(key, asset) ==
    [id |-> asset.id,
     thumbUrl |-> Url(key, asset.id, "thumbnail"),
     previewUrl |-> Url(key, asset.id, "preview"),
     originalUrl |-> Url(key, asset.id, "original")]

Listing(media, page, pageSize, total) ==
    [status |-> 200, kind |-> "listing", media |-> media, page |-> page,
     pageSize |-> pageSize, total |-> total]

\* The try block of the listing, for the password the resolution is given.
GalleryBody(key, pageQ, pageSizeQ, password, up) ==
    LET share == getShareByKey(key, password, up)
        call == <<[key |-> key, password |-> password]>>
        page == OrDefault(parseInt(pageQ), DefaultPage)
        pageSize == OrDefault(parseInt(pageSizeQ), DefaultPageSize)
        start == (page - 1) * pageSize
        pagedAssets == slice(share.assets, start, start + pageSize)
        media == [i \in 1..Len(pagedAssets) |-> Project(key, pagedAssets[i])]
    IN  IF share.threw THEN Outcome(ErrorEnvelope, call, NoHand, FALSE)
        ELSE IF ~share.link \/ Len(share.assets) = 0
        THEN Outcome(ErrorEnvelope, call, NoHand, FALSE)
        ELSE Outcome(Listing(media, page, pageSize, Len(share.assets)), call, NoHand, FALSE)

GalleryHandlerWithGate(key, pageQ, pageSizeQ, sess, t, up) ==
    GalleryBody(key, pageQ, pageSizeQ, decodeCookie(key, sess, t).password, up)

\* The paginated listing: getShareByKey(shareKey, '').  The caller's session
\* (req.session) and the clock are in the handler's reach and are not read.
GalleryHandler(key, pageQ, pageSizeQ, sess, t, up) ==
    GalleryBody(key, pageQ, pageSizeQ, "", up)

\* The earlier revision of the listing in index.ts: every asset, no paging.
ProjectUnpaged(key, asset) ==
    [id |-> asset.id,
     thumbUrl |-> <<"host", "share", "photo", key, asset.id, "thumb">>,
     originalUrl |-> <<"host", "share", "photo", key, asset.id, "">>]

GalleryHandlerUnpaged(key, up) ==
    LET share == getShareByKey(key, "", up)
        call == <<[key |-> key, password |-> ""]>>
    IN  IF share.threw THEN Outcome(ErrorEnvelope, call, NoHand, FALSE)
        ELSE IF ~share.link \/ Len(share.assets) = 0
        THEN Outcome(ErrorEnvelope, call, NoHand, FALSE)
        ELSE Outcome([status |-> 200, kind |-> "media",
                      media |-> [i \in 1..Len(share.assets) |-> ProjectUnpaged(key, share.assets[i])],
                      page |-> 0, pageSize |-> 0, total |-> 0], call, NoHand, FALSE)

----------------------------------------------------------------------------
(* The state machine *)

NoReq == [route |-> "none", type |-> "", key |-> NoKey, id |-> 0, size |-> NoSize,
          page |-> NoParam, pageSize |-> NoParam, bodyPassword |-> NoPw,
          at |-> 0, up |-> TRUE]

NeverUnlocked == [set |-> FALSE, password |-> NoPw, at |-> 0]

Sent == [status |-> 200, kind |-> "empty", media |-> NoMedia, page |-> 0, pageSize |-> 0, total |-> 0]
Delegated == [status |-> 0, kind |-> "delegated", media |-> NoMedia, page |-> 0, pageSize |-> 0, total |-> 0]

Init ==
    /\ now = 0
    /\ ticks = 0
    /\ session = [k \in UnlockKeys |-> AbsentSlot]
    /\ lastUnlock = [k \in UnlockKeys |-> NeverUnlocked]
    /\ backendUp = TRUE
    /\ proc = "running"
    /\ req = NoReq
    /\ gate = NoGate
    /\ calls = <<>>
    /\ handed = NoHand
    /\ resp = Unanswered

\* Time passes.
Tick(d) ==
    /\ proc = "running"
    /\ ticks < MaxTicks
    /\ now' = now + d
    /\ ticks' = ticks + 1
    /\ UNCHANGED <<session, lastUnlock, backendUp, proc, req, gate, calls, handed, resp>>

\* The backend becomes unreachable, or reachable again.
BackendFlip ==
    /\ proc = "running"
    /\ backendUp' = ~backendUp
    /\ UNCHANGED <<now, ticks, session, lastUnlock, proc, req, gate, calls, handed, resp>>

\* app.post('/share/unlock')
Unlock(bodyKey, bodyPassword) ==
    /\ proc = "running"
    /\ session' = UnlockStore(session, bodyKey, bodyPassword, now)
    /\ lastUnlock' = IF bodyKey # NoKey
                     THEN [lastUnlock EXCEPT ![bodyKey] =
                               [set |-> TRUE, password |-> bodyPassword, at |-> now]]
                     ELSE lastUnlock
    /\ req' = [NoReq EXCEPT !.route = "unlock", !.key = bodyKey,
                            !.bodyPassword = bodyPassword, !.at = now, !.up = backendUp]
    /\ gate' = NoGate
    /\ calls' = <<>>
    /\ handed' = NoHand
    /\ resp' = Sent
    /\ UNCHANGED <<now, ticks, backendUp, proc>>

\* app.get('/share/:key/:mode(download)?', decodeCookie, ...)
ShareRoute(key, mode) ==
    /\ proc = "running"
    /\ req' = [NoReq EXCEPT !.route = "share", !.key = key, !.size = mode,
                            !.at = now, !.up = backendUp]
    /\ gate' = decodeCookie(key, session, now)
    /\ calls' = <<>>
    /\ handed' = [NoHand EXCEPT !.to = "handleShareRequest", !.key = key,
                                !.size = mode, !.password = gate'.password]
    /\ resp' = Delegated
    /\ UNCHANGED <<now, ticks, session, lastUnlock, backendUp, proc>>

\* app.get('/share/:type(photo|video)/:key/:id/:size?', decodeCookie, ...) of index.ts
AssetRoute(type, key, id, size) ==
    /\ proc = "running"
    /\ req' = [NoReq EXCEPT !.route = "asset", !.type = type, !.key = key, !.id = id,
                            !.size = size, !.at = now, !.up = backendUp]
    /\ gate' = decodeCookie(key, session, now)
    /\ LET o == AssetHandler(type, key, id, size, gate'.password, backendUp)
       IN  /\ calls' = o.calls
           /\ handed' = o.handed
           /\ resp' = o.resp
           /\ proc' = IF o.fatal THEN "exited" ELSE proc
    /\ UNCHANGED <<now, ticks, session, lastUnlock, backendUp>>

\* The same route in the second source file.
AssetRouteNoElse(type, key, id, size) ==
    /\ proc = "running"
    /\ req' = [NoReq EXCEPT !.route = "asset", !.type = type, !.key = key, !.id = id,
                            !.size = size, !.at = now, !.up = backendUp]
    /\ gate' = decodeCookie(key, session, now)
    /\ LET o == AssetHandlerNoElse(type, key, id, size, gate'.password, backendUp)
       IN  /\ calls' = o.calls
           /\ handed' = o.handed
           /\ resp' = o.resp
           /\ proc' = IF o.fatal THEN "exited" ELSE proc
    /\ UNCHANGED <<now, ticks, session, lastUnlock, backendUp>>

\* app.get('/share/:id/api') with paging
GalleryApi(key, pageQ, pageSizeQ) ==
    /\ proc = "running"
    /\ req' = [NoReq EXCEPT !.route = "api", !.key = key, !.page = pageQ,
                            !.pageSize = pageSizeQ, !.at = now, !.up = backendUp]
    /\ gate' = NoGate
    /\ LET o == GalleryHandler(key, pageQ, pageSizeQ, session, now, backendUp)
       IN  /\ calls' = o.calls
           /\ handed' = o.handed
           /\ resp' = o.resp
    /\ UNCHANGED <<now, ticks, session, lastUnlock, backendUp, proc>>

\* app.get('/share/:id/api') of the earlier revision
GalleryApiUnpaged(key) ==
    /\ proc = "running"
    /\ req' = [NoReq EXCEPT !.route = "api-unpaged", !.key = key, !.at = now, !.up = backendUp]
    /\ gate' = NoGate
    /\ LET o == GalleryHandlerUnpaged(key, backendUp)
       IN  /\ calls' = o.calls
           /\ handed' = o.handed
           /\ resp' = o.resp
    /\ UNCHANGED <<now, ticks, session, lastUnlock, backendUp, proc>>

\* The routes, with the clock standing still.
Next ==
    \/ BackendFlip
    \/ \E k \in UnlockKeys \cup {NoKey}, p \in Passwords : Unlock(k, p)
    \/ \E t \in Types, k \in Keys, i \in Ids, z \in Sizes : AssetRoute(t, k, i, z)
    \/ \E t \in Types, k \in Keys, i \in Ids, z \in Sizes : AssetRouteNoElse(t, k, i, z)
    \/ \E k \in GalleryKeys, p \in PageParams, z \in PageSizeParams : GalleryApi(k, p, z)
    \/ \E k \in GalleryKeys : GalleryApiUnpaged(k)

Spec == Init /\ [][Next]_vars

\* The credential's life: unlocks, the clock, and the gated share route.
NextSession ==
    \/ \E d \in ClockSteps : Tick(d)
    \/ \E k \in UnlockKeys \cup {NoKey}, p \in Passwords \cup {NoPw} : Unlock(k, p)
    \/ \E k \in Keys, m \in {NoSize, "download"} : ShareRoute(k, m)

SpecSession == Init /\ [][NextSession]_vars

\* The gate on any session content: the slots a cookie can hold, whether or
\* not an unlock wrote them.
SealedP1 == encrypt(JSONstringify("p1", format(addHour(0))))
SlotShapes ==
    { AbsentSlot,
      [SealedP1 EXCEPT !.iv = 0],
      [SealedP1 EXCEPT !.cr = 0],
      [SealedP1 EXCEPT !.sealed = FALSE],
      encrypt(NoPlain),
      encrypt([json |-> TRUE, hasExpires |-> FALSE, password |-> "p1", expires |-> 0]),
      encrypt(JSONstringify("p1", format(0))),
      SealedP1 }
GateInstants == {0, HourMs - 500, HourMs}

InitGate ==
    /\ now \in GateInstants
    /\ ticks = 0
    /\ session \in [UnlockKeys -> SlotShapes]
    /\ lastUnlock = [k \in UnlockKeys |-> NeverUnlocked]
    /\ backendUp = TRUE
    /\ proc = "running"
    /\ req = NoReq
    /\ gate = NoGate
    /\ calls = <<>>
    /\ handed = NoHand
    /\ resp = Unanswered

NextGate == \E k \in Keys, m \in {NoSize, "download"} : ShareRoute(k, m)

SpecGate == InitGate /\ [][NextGate]_vars

----------------------------------------------------------------------------
(* Properties *)

SizeRejected(size) == size # NoSize /\ size \notin ImageSize

\* What the backend holds for the latest asset request, as the handler saw it.
SeenShare == getShareByKey(req.key, gate.password, req.up)

\* C1: on the asset route, valid key and id, a share with a non-empty asset
\* list and no asset of the requested id: the response is the 404 of an
\* unknown key, and the request is answered.
ClaimC1 ==
    ( /\ req.route = "asset"
      /\ isKey(req.key) /\ isId(req.id) /\ ~SizeRejected(req.size)
      /\ ~SeenShare.threw /\ SeenShare.link /\ Len(SeenShare.assets) # 0
      /\ Find(SeenShare.assets, req.id) = 0 )
    => (resp = respondToInvalidRequest /\ resp # Unanswered)

\* The credential the latest unlock of the requested key stored.
Latest == lastUnlock[req.key]
Gated == gate.ran /\ req.key \in UnlockKeys /\ lastUnlock[req.key].set

\* C2 as stated: the gate attaches the unlock's password exactly while the
\* request time is before unlock time + 1 hour.
ClaimC2 ==
    Gated => IF req.at < Latest.at + HourMs
             THEN gate.password = Latest.password
             ELSE gate.password = NoPw

StoredExpiry(t) == ((t + HourMs) \div MsPerSecond) * MsPerSecond

\* C2 amended: the expiry is unlock time + 1 hour cut down to the whole
\* second; before it the gate attaches the unlock's password, from it on none.
ClaimC2Amended ==
    Gated => IF req.at < StoredExpiry(Latest.at)
             THEN gate.password = Latest.password
             ELSE gate.password = NoPw

WitnessC2 ==
    /\ Gated
    /\ Latest.password = "p1"
    /\ req.at > Latest.at
    /\ req.at < StoredExpiry(Latest.at)
    /\ gate.password = "p1"
    /\ handed.password = "p1"

\* C3: on the asset route an invalid key, an invalid id or an unknown size
\* segment gives 404 with no backend resolution and nothing handed to the
\* streaming adapter, whatever the backend state and the recovered password.
ClaimC3 ==
    ( /\ req.route = "asset"
      /\ (~isKey(req.key) \/ ~isId(req.id) \/ SizeRejected(req.size)) )
    => (resp = respondToInvalidRequest /\ calls = <<>> /\ handed.to = "none")

WitnessC3 ==
    /\ req.route = "asset"
    /\ isKey(req.key) /\ isId(req.id) /\ SizeRejected(req.size)
    /\ gate.password = "p1"
    /\ ~req.up
    /\ resp = respondToInvalidRequest

\* C4: the listing's effective page and pageSize are integers >= 1 for every
\* query input, and the defaults 1 and 20 for a missing or non-numeric one.
ClaimC4 ==
    (req.route = "api" /\ resp.kind = "listing")
    => /\ resp.page >= 1
       /\ resp.pageSize >= 1
       /\ (~(req.page.given /\ req.page.numeric) => resp.page = DefaultPage)
       /\ (~(req.pageSize.given /\ req.pageSize.numeric) => resp.pageSize = DefaultPageSize)

ExpectedMedia(key, assets, page, pageSize) ==
    LET lo == Max((page - 1) * pageSize, 0)
        hi == Min((page - 1) * pageSize + pageSize, Len(assets))
    IN  [j \in 1..Max(hi - lo, 0) |-> Project(key, assets[lo + j])]
ListedShare == getShareByKey(req.key, "", req.up)

\* C5: for a share of n > 0 assets the listing answers 200 with the assets at
\* 0-based positions [(page-1)*pageSize, (page-1)*pageSize + pageSize) of the
\* backend's list, in order, projected, and total = n.
ClaimC5 ==
    ( /\ req.route = "api"
      /\ ~ListedShare.threw /\ ListedShare.link /\ Len(ListedShare.assets) # 0 )
    => /\ resp.status = 200
       /\ resp.total = Len(ListedShare.assets)
       /\ resp.media = ExpectedMedia(req.key, ListedShare.assets, resp.page, resp.pageSize)

GoodSlot(slot, t) ==
    /\ slot.present /\ slot.iv # 0 /\ slot.cr # 0
    /\ slot.sealed /\ slot.plain.json /\ slot.plain.hasExpires
    /\ slot.plain.expires * MsPerSecond > t

\* C6: the gate passes control on exactly once and raises nothing, for every
\* content of the slot; it attaches the stored password only when the slot
\* decrypts, parses, has expires, and expires is strictly in the future.
ClaimC6 ==
    gate.ran =>
        /\ gate.next = 1
        /\ ~gate.error
        /\ resp = Delegated
        /\ IF GoodSlot(SlotOf(session, req.key), req.at)
           THEN gate.password = SlotOf(session, req.key).plain.password
           ELSE gate.password = NoPw

WitnessC6 ==
    /\ gate.ran
    /\ SlotOf(session, req.key).present
    /\ ~SlotOf(session, req.key).sealed
    /\ gate.password = NoPw
    /\ handed.to = "handleShareRequest"

\* C7: a failed backend resolution on the asset route is answered with one
\* 404, with one resolution call, and the process keeps running.
ClaimC7 ==
    (req.route = "asset" /\ calls # <<>> /\ ~req.up)
    => (resp = respondToInvalidRequest /\ Len(calls) = 1 /\ proc = "running")

\* C8: the listing resolves with (key, empty password) and its response and
\* resolution call are the same for every session store the caller could hold.
ClaimC8 ==
    req.route = "api" =>
        /\ calls = <<[key |-> req.key, password |-> ""]>>
        /\ \A s \in [UnlockKeys -> SlotShapes] :
              LET o == GalleryHandler(req.key, req.page, req.pageSize, s, req.at, req.up)
              IN  o.resp = resp /\ o.calls = calls

WitnessC8 ==
    /\ req.route = "api"
    /\ req.key = "locked"
    /\ decodeCookie("locked", session, req.at).password = "p1"
    /\ req.up
    /\ resp = ErrorEnvelope

\* C9: the asset handed to the streaming adapter has type video exactly when
\* the route was video, and image otherwise, whatever the backend reported.
ClaimC9 ==
    handed.to = "assetBuffer" =>
        /\ handed.id = req.id
        /\ (handed.type = "video" <=> req.type = "video")
        /\ (handed.type = "image" <=> req.type = "photo")

WitnessC9 ==
    /\ handed.to = "assetBuffer"
    /\ req.type = "video"
    /\ BackendType(handed.id) = "image"
    /\ handed.type = "video"

FrameC10 ==
    /\ \A k \in UnlockKeys :
          session'[k] # session[k] => (req'.route = "unlock" /\ req'.key = k)
    /\ (req'.route = "unlock" /\ req'.key = NoKey)
          => (session' = session /\ resp'.status = 200)
    /\ (req'.route = "unlock" => resp'.status = 200)
OwnPassword ==
    (gate.ran /\ gate.password # NoPw)
    => (req.key \in UnlockKeys /\ Latest.set /\ gate.password = Latest.password)

\* C10: a slot changes only by an unlock for its own key; an unlock without a
\* key changes no slot and answers 200; a password the gate attaches for a
\* key is the one of the latest unlock for that key.
ClaimC10 == [][FrameC10 /\ OwnPassword']_vars

WitnessC10 ==
    /\ lastUnlock["open"].set /\ lastUnlock["open"].password = "p1"
    /\ lastUnlock["locked"].set /\ lastUnlock["locked"].password = "p2"
    /\ lastUnlock["locked"].at > lastUnlock["open"].at
    /\ gate.ran /\ req.key = "open"
    /\ gate.password = "p1"

====
